---- MODULE Spec2Model ----
(***************************************************************************)
(* A model of the M1Wengine game core: the ScoreController singleton       *)
(* (game/scoreController.py) and the Level controller                      *)
(* (game/levels/level.py): tile-group building, entity spawning and the    *)
(* per-frame run cycle.                                                    *)
(***************************************************************************)
EXTENDS Integers, Sequences, FiniteSets, TLC

VARIABLES
    high_score,      \* ScoreController._high_score
    boredom_meter,   \* ScoreController._boredom_meter
    score_last,      \* history: the last ScoreController call, its argument,
                     \* the values before it and the error it raised
    instance,        \* ScoreController.instance: an object id, 0 while the
                     \* class has no such attribute
    objects_made,    \* history: ScoreController objects allocated so far
    universal_assets,\* Level._universal_assets: the shared asset table
    layout,          \* the layout handed to create_tile_group or to
                     \* create_entities_from_layout
    build_pc,        \* "ready", then which of the two ran and how it ended
    build_err,       \* the exception that ended it, and the cell it was at
    sprite_group,    \* create_tile_group: the tiles of its sprite_group
    entities,        \* every entity constructed, in construction order
    player,          \* Level.player: an entity id, 0 while the attribute is unset
    player_group,    \* Level._player_group (a GroupSingle): a set of entity ids
    good_sprites,    \* Level._good_sprites: a set of entity ids
    bad_sprites,     \* Level._bad_sprites: a set of entity ids
    tile_sprites,    \* Level._terrain_sprites, _plant_sprites, _fence_sprites,
                     \* _extra_sprites and _obstacle_sprites, as a record
    camera_groups,   \* the groups added to Level._camera, in order
    paused,          \* Level._paused
    event_queue,     \* the events pygame.event.get() will return
    esc_keyups,      \* history: escape key-up events run has processed
    frames,          \* history: calls of run so far
    frame_log,       \* history: the calls the last run made, in order
    music_busy,      \* mixer.music.get_busy(): music is playing or fading out
    sound_busy,      \* mixer.get_busy(): a sound channel is playing
    music_track,     \* the track loaded into mixer.music, "none" if unloaded
    music_pc,        \* "idle", or in whose wait loop the program is
    music_call,      \* history: the last load_music / add_menu_music call
    music_log,       \* history: the mixer calls it has made, in order, each
                     \* with music.get_busy() at the time of the call
    music_loads      \* history: load_music / add_menu_music calls so far

score_vars == <<high_score, boredom_meter, score_last, instance, objects_made>>
build_vars == <<universal_assets, layout, build_pc, build_err, sprite_group,
                entities, player, player_group, good_sprites, bad_sprites>>

run_vars == <<tile_sprites, camera_groups, paused, event_queue, esc_keyups,
              frames, frame_log>>

music_vars == <<music_busy, sound_busy, music_track, music_pc, music_call,
                music_log, music_loads>>

vars == <<score_vars, build_vars, run_vars, music_vars>>

(***************************************************************************)
(* Bounds of the model.                                                    *)
(***************************************************************************)
\* scores are unbounded Python ints; the model stops increasing them here
MaxScore == 12
\* the most negative value a caller tries to assign
MaxNegative == 2
\* a layout has at most this many cells (rows * columns)
MaxCells == 4
\* the asset table has at most this many entries
MaxAssets == 2
\* at most this many events wait in the event queue
MaxEvents == 2
\* run is called at most this many times
MaxFrames == 3
\* load_music and add_menu_music are called at most this many times
MaxLoads == 3

(***************************************************************************)
(* game/scoreController.py                                                 *)
(***************************************************************************)
SCORE_REDUCE_DAMSEL_DEATH == 6
BOREDOM_REDUCE_DAMSEL_DEATH == 10
SCORE_INCREASE_SKELETON_DEATH == 1
BOREDOM_INCREASE_SKELETON_DEATH == 5

\* entity names the callers pass; only "Skeleton" and "Damsel" are recognised
EntityNames == {"Skeleton", "Damsel", "Goblin"}
\* values a caller may try to assign through a property setter
AssignValues == (0 - MaxNegative)..MaxScore

NoCall ==
    [op |-> "init", arg |-> "", val |-> 0, h0 |-> 0, b0 |-> 0, err |-> "none"]

\* a setter that clamps a negative value to 0 before raising
high_score_setter_clamps(cur, new_value) ==
    IF new_value >= 0
    THEN [value |-> new_value, err |-> "none"]
    ELSE [value |-> 0, err |-> "ValueError"]

\* high_score.setter: the value stored and the error raised
high_score_setter(cur, new_value) ==
    IF new_value >= 0
    THEN [value |-> new_value, err |-> "none"]
    ELSE [value |-> cur, err |-> "ValueError"]

\* a setter without the sign check
boredom_meter_setter_unchecked(cur, new_value) ==
    [value |-> new_value, err |-> "none"]

\* boredom_meter.setter: the value stored and the error raised
boredom_meter_setter(cur, new_value) ==
    IF new_value >= 0
    THEN [value |-> new_value, err |-> "none"]
    ELSE [value |-> cur, err |-> "ValueError"]

\* bad_entity_destroyed_update_score: the scores after the call and its error;
\* an exception of the first augmented assignment skips the second
bad_entity_destroyed_update_score(h, b, entity_name) ==
    IF entity_name = "Skeleton"
    THEN LET r1 == high_score_setter(h, h + SCORE_INCREASE_SKELETON_DEATH)
         IN  IF r1.err # "none"
             THEN [h |-> r1.value, b |-> b, err |-> r1.err]
             ELSE LET r2 == boredom_meter_setter(
                                b, b + BOREDOM_INCREASE_SKELETON_DEATH)
                  IN  [h |-> r1.value, b |-> r2.value, err |-> r2.err]
    ELSE [h |-> h, b |-> b, err |-> "none"]

\* the update without the two clamping branches
good_entity_destroyed_update_score_noclamp(h, b, entity_name) ==
    IF entity_name = "Damsel"
    THEN LET r1 == high_score_setter(h, h - SCORE_REDUCE_DAMSEL_DEATH)
         IN  IF r1.err # "none"
             THEN [h |-> r1.value, b |-> b, err |-> r1.err]
             ELSE LET r2 == boredom_meter_setter(
                                b, b - BOREDOM_REDUCE_DAMSEL_DEATH)
                  IN  [h |-> r1.value, b |-> r2.value, err |-> r2.err]
    ELSE [h |-> h, b |-> b, err |-> "none"]

\* good_entity_destroyed_update_score: the scores after the call and its error
good_entity_destroyed_update_score(h, b, entity_name) ==
    IF entity_name = "Damsel"
    THEN LET r1 == IF h - SCORE_REDUCE_DAMSEL_DEATH < 0
                   THEN high_score_setter(h, 0)
                   ELSE high_score_setter(h, h - SCORE_REDUCE_DAMSEL_DEATH)
         IN  IF r1.err # "none"
             THEN [h |-> r1.value, b |-> b, err |-> r1.err]
             ELSE LET r2 == IF b - BOREDOM_REDUCE_DAMSEL_DEATH < 0
                            THEN boredom_meter_setter(b, 0)
                            ELSE boredom_meter_setter(
                                     b, b - BOREDOM_REDUCE_DAMSEL_DEATH)
                  IN  [h |-> r1.value, b |-> r2.value, err |-> r2.err]
    ELSE [h |-> h, b |-> b, err |-> "none"]

\* __new__: the singleton is allocated only while the class has no instance
ScoreController_new(inst, made) ==
    IF inst = 0
    THEN [instance |-> made + 1, objects_made |-> made + 1]
    ELSE [instance |-> inst, objects_made |-> made]

\* the state after ScoreController() has been constructed once
ScoreInit ==
    /\ high_score = 0
    /\ boredom_meter = 0
    /\ score_last = NoCall
    /\ instance = ScoreController_new(0, 0).instance
    /\ objects_made = ScoreController_new(0, 0).objects_made

\* controller.high_score = v
SetHighScore ==
    \E v \in AssignValues :
        LET r == high_score_setter(high_score, v)
        IN  /\ high_score' = r.value
            /\ boredom_meter' = boredom_meter
            /\ score_last' = [op |-> "set_high_score", arg |-> "", val |-> v,
                              h0 |-> high_score, b0 |-> boredom_meter,
                              err |-> r.err]
            /\ UNCHANGED <<instance, objects_made, build_vars, run_vars,
                           music_vars>>

\* controller.boredom_meter = v
SetBoredomMeter ==
    \E v \in AssignValues :
        LET r == boredom_meter_setter(boredom_meter, v)
        IN  /\ boredom_meter' = r.value
            /\ high_score' = high_score
            /\ score_last' = [op |-> "set_boredom_meter", arg |-> "", val |-> v,
                              h0 |-> high_score, b0 |-> boredom_meter,
                              err |-> r.err]
            /\ UNCHANGED <<instance, objects_made, build_vars, run_vars,
                           music_vars>>

\* controller.bad_entity_destroyed_update_score(name)
BadEntityDestroyed ==
    \E name \in EntityNames :
        LET r == bad_entity_destroyed_update_score(
                     high_score, boredom_meter, name)
        IN  /\ r.h <= MaxScore
            /\ r.b <= MaxScore
            /\ high_score' = r.h
            /\ boredom_meter' = r.b
            /\ score_last' = [op |-> "bad_entity_destroyed", arg |-> name, val |-> 0,
                              h0 |-> high_score, b0 |-> boredom_meter,
                              err |-> r.err]
            /\ UNCHANGED <<instance, objects_made, build_vars, run_vars,
                           music_vars>>

\* controller.good_entity_destroyed_update_score(name)
GoodEntityDestroyed ==
    \E name \in EntityNames :
        LET r == good_entity_destroyed_update_score(
                     high_score, boredom_meter, name)
        IN  /\ high_score' = r.h
            /\ boredom_meter' = r.b
            /\ score_last' = [op |-> "good_entity_destroyed", arg |-> name, val |-> 0,
                              h0 |-> high_score, b0 |-> boredom_meter,
                              err |-> r.err]
            /\ UNCHANGED <<instance, objects_made, build_vars, run_vars,
                           music_vars>>

\* ScoreController() once more: __new__ returns the existing instance and
\* __init__ runs on it again
ScoreControllerCall ==
    /\ high_score' = 0
    /\ boredom_meter' = 0
    /\ score_last' = [op |-> "ScoreController", arg |-> "", val |-> 0,
                      h0 |-> high_score, b0 |-> boredom_meter, err |-> "none"]
    /\ LET r == ScoreController_new(instance, objects_made)
       IN  /\ instance' = r.instance
           /\ objects_made' = r.objects_made
    /\ UNCHANGED <<build_vars, run_vars, music_vars>>

ScoreNext ==
    \/ SetHighScore
    \/ SetBoredomMeter
    \/ BadEntityDestroyed
    \/ GoodEntityDestroyed
    \/ ScoreControllerCall

(***************************************************************************)
(* Python values of layout cells: an int or a str.  Two values of           *)
(* different types are never equal.                                        *)
(***************************************************************************)
IntVal(n) == [t |-> "int", i |-> n, s |-> ""]
StrVal(x) == [t |-> "str", i |-> 0, s |-> x]

\* game_data.character_keys
PlayerKey == 0
DamselKey == 1
SkeletonKey == 2

\* the integers a cell of a tile layer may hold: the sentinel, indices inside
\* the asset table and indices on either side of it
TileCellValues == {0 - MaxAssets, 0 - 1, 0, MaxAssets - 1, MaxAssets}
\* the integers a cell of the character layer may hold: the sentinel, the
\* three keys and a value that is no key
CharCellValues == {0 - 1, PlayerKey, DamselKey, SkeletonKey, SkeletonKey + 1}
CellValues == TileCellValues \cup CharCellValues
\* str(n): the decimal string of each of them
Decimal == [n \in CellValues |-> ToString(n)]
\* a layout holds ints, or the strings a csv reader yields
IntCells(values) == {IntVal(n) : n \in values}
StrCells(values) == {StrVal(Decimal[n]) : n \in values}

\* Python ==, != on cell values
PyEq(a, b) == a = b
PyNe(a, b) == a # b

\* Python int(val): an int is itself, a decimal string is parsed, any other
\* string raises ValueError
PyInt(val) ==
    IF val.t = "int"
    THEN [value |-> val.i, err |-> "none"]
    ELSE IF \E n \in CellValues : Decimal[n] = val.s
         THEN [value |-> CHOOSE n \in CellValues : Decimal[n] = val.s,
               err |-> "none"]
         ELSE [value |-> 0, err |-> "ValueError"]

\* Python list[idx]: a negative idx counts from the end of the list
ListIndex(list, idx) ==
    IF 0 <= idx /\ idx < Len(list)
    THEN [value |-> list[idx + 1], err |-> "none"]
    ELSE IF 0 - Len(list) <= idx /\ idx < 0
         THEN [value |-> list[Len(list) + idx + 1], err |-> "none"]
         ELSE [value |-> 0, err |-> "IndexError"]

\* rectangular grids of at most MaxCells cells over a set of cell values
Shapes == {sh \in (1..MaxCells) \X (1..MaxCells) : sh[1] * sh[2] <= MaxCells}
Grids(cells) == UNION {[1..sh[1] -> [1..sh[2] -> cells]] : sh \in Shapes}
Layouts ==
    Grids(IntCells(TileCellValues)) \cup Grids(StrCells(TileCellValues))
        \cup Grids(IntCells(CharCellValues)) \cup Grids(StrCells(CharCellValues))
\* asset tables: entry k (counted from 0) is the asset named k
AssetTables == {[k \in 1..n |-> k - 1] : n \in {MaxAssets - 1, MaxAssets}}

NumRows(lay) == Len(lay)
NumCols(lay) == IF Len(lay) = 0 THEN 0 ELSE Len(lay[1])
NumCells(lay) == NumRows(lay) * NumCols(lay)
\* the k-th cell in enumeration order (row by row), indices counted from 0
RowIndex(lay, k) == (k - 1) \div NumCols(lay)
ColIndex(lay, k) == (k - 1) % NumCols(lay)
CellAt(lay, k) == lay[RowIndex(lay, k) + 1][ColIndex(lay, k) + 1]

NoErr == [err |-> "none", row |-> 0 - 1, col |-> 0 - 1]

(***************************************************************************)
(* game/levels/level.py: create_tile_group                                 *)
(***************************************************************************)
\* settings.TILESIZE
TILESIZE == 10

\* what create_tile_group compares a cell with to skip it
TileSentinel == StrVal("-1")

\* the nested loops of create_tile_group from cell k on: the group built and
\* the exception that ended the loops, if any
RECURSIVE tile_loop(_, _, _, _)
tile_loop(assets, lay, k, group) ==
    IF k > NumCells(lay)
    THEN [group |-> group, err |-> NoErr]
    ELSE LET row_index == RowIndex(lay, k)
             col_index == ColIndex(lay, k)
             val == CellAt(lay, k)
             here(e) == [err |-> e, row |-> row_index, col |-> col_index]
         IN  IF PyNe(val, TileSentinel)
             THEN LET coords == <<col_index * TILESIZE, row_index * TILESIZE>>
                      n == PyInt(val)
                      tile_surface == ListIndex(assets, n.value)
                  IN  IF n.err # "none"
                      THEN [group |-> group, err |-> here(n.err)]
                      ELSE IF tile_surface.err # "none"
                      THEN [group |-> group, err |-> here(tile_surface.err)]
                      ELSE \* Tile(sprite_group), set_tile(coords, surface),
                           \* sprite_group.add(sprite): one member, added once
                           tile_loop(assets, lay, k + 1,
                               group \cup {[row |-> row_index,
                                            col |-> col_index,
                                            pos |-> coords,
                                            image |-> tile_surface.value]})
             ELSE tile_loop(assets, lay, k + 1, group)

create_tile_group(assets, lay) == tile_loop(assets, lay, 1, {})

\* self.create_tile_group(layout)
CreateTileGroup ==
    /\ build_pc = "ready"
    /\ LET r == create_tile_group(universal_assets, layout)
       IN  /\ sprite_group' = r.group
           /\ build_err' = r.err
           /\ build_pc' = IF r.err.err = "none"
                          THEN "tiles_returned" ELSE "tiles_raised"
    /\ UNCHANGED <<universal_assets, layout, entities, player, player_group,
                   good_sprites, bad_sprites>>
    /\ UNCHANGED <<score_vars, run_vars, music_vars>>

(***************************************************************************)
(* game/levels/level.py: create_entities_from_layout                       *)
(***************************************************************************)
\* the state of the spawner before the first cell: create_sprite_groups has
\* made the groups empty and Level.player is not set yet
SpawnStart ==
    [position |-> <<0, 0>>, entities |-> <<>>, player |-> 0,
     player_group |-> {}, good |-> {}, bad |-> {}]

\* an entity as its constructor leaves it; row and col record the cell whose
\* key spawned it
NewEntity(kind, position, row_index, col_index) ==
    [kind |-> kind, pos |-> position, player |-> 0,
     row |-> row_index, col |-> col_index]

\* the loops with the entity constructed before the position is computed
RECURSIVE spawn_loop_stale_position(_, _, _)
spawn_loop_stale_position(lay, k, st) ==
    IF k > NumCells(lay)
    THEN st
    ELSE LET row_index == RowIndex(lay, k)
             col_index == ColIndex(lay, k)
             val == CellAt(lay, k)
             position == IF PyNe(val, IntVal(0 - 1))
                         THEN <<col_index * TILESIZE, row_index * TILESIZE>>
                         ELSE st.position
             id == Len(st.entities) + 1
             made(kind) == Append(st.entities,
                               NewEntity(kind, st.position, row_index, col_index))
         IN  IF PyEq(val, IntVal(PlayerKey))
             THEN \* Player(position, [self._player_group], ...): a
                  \* GroupSingle keeps only the sprite added last
                  spawn_loop_stale_position(lay, k + 1,
                      [st EXCEPT !.position = position,
                                 !.entities = made("Player"),
                                 !.player = id,
                                 !.player_group = {id}])
             ELSE IF PyEq(val, IntVal(DamselKey))
             THEN spawn_loop_stale_position(lay, k + 1,
                      [st EXCEPT !.position = position,
                                 !.entities = made("Damsel"),
                                 !.good = st.good \cup {id}])
             ELSE IF PyEq(val, IntVal(SkeletonKey))
             THEN spawn_loop_stale_position(lay, k + 1,
                      [st EXCEPT !.position = position,
                                 !.entities = made("Skeleton"),
                                 !.bad = st.bad \cup {id}])
             ELSE spawn_loop_stale_position(lay, k + 1, [st EXCEPT !.position = position])

\* the loops with the skeleton handed the good group
RECURSIVE spawn_loop_skeleton_good(_, _, _)
spawn_loop_skeleton_good(lay, k, st) ==
    IF k > NumCells(lay)
    THEN st
    ELSE LET row_index == RowIndex(lay, k)
             col_index == ColIndex(lay, k)
             val == CellAt(lay, k)
             position == IF PyNe(val, IntVal(0 - 1))
                         THEN <<col_index * TILESIZE, row_index * TILESIZE>>
                         ELSE st.position
             id == Len(st.entities) + 1
             made(kind) == Append(st.entities,
                               NewEntity(kind, position, row_index, col_index))
         IN  IF PyEq(val, IntVal(PlayerKey))
             THEN \* Player(position, [self._player_group], ...): a
                  \* GroupSingle keeps only the sprite added last
                  spawn_loop_skeleton_good(lay, k + 1,
                      [st EXCEPT !.position = position,
                                 !.entities = made("Player"),
                                 !.player = id,
                                 !.player_group = {id}])
             ELSE IF PyEq(val, IntVal(DamselKey))
             THEN spawn_loop_skeleton_good(lay, k + 1,
                      [st EXCEPT !.position = position,
                                 !.entities = made("Damsel"),
                                 !.good = st.good \cup {id}])
             ELSE IF PyEq(val, IntVal(SkeletonKey))
             THEN spawn_loop_skeleton_good(lay, k + 1,
                      [st EXCEPT !.position = position,
                                 !.entities = made("Skeleton"),
                                 !.good = st.good \cup {id}])
             ELSE spawn_loop_skeleton_good(lay, k + 1, [st EXCEPT !.position = position])

\* the nested loops of create_entities_from_layout from cell k on
RECURSIVE spawn_loop(_, _, _)
spawn_loop(lay, k, st) ==
    IF k > NumCells(lay)
    THEN st
    ELSE LET row_index == RowIndex(lay, k)
             col_index == ColIndex(lay, k)
             val == CellAt(lay, k)
             position == IF PyNe(val, IntVal(0 - 1))
                         THEN <<col_index * TILESIZE, row_index * TILESIZE>>
                         ELSE st.position
             id == Len(st.entities) + 1
             made(kind) == Append(st.entities,
                               NewEntity(kind, position, row_index, col_index))
         IN  IF PyEq(val, IntVal(PlayerKey))
             THEN \* Player(position, [self._player_group], ...): a
                  \* GroupSingle keeps only the sprite added last
                  spawn_loop(lay, k + 1,
                      [st EXCEPT !.position = position,
                                 !.entities = made("Player"),
                                 !.player = id,
                                 !.player_group = {id}])
             ELSE IF PyEq(val, IntVal(DamselKey))
             THEN spawn_loop(lay, k + 1,
                      [st EXCEPT !.position = position,
                                 !.entities = made("Damsel"),
                                 !.good = st.good \cup {id}])
             ELSE IF PyEq(val, IntVal(SkeletonKey))
             THEN spawn_loop(lay, k + 1,
                      [st EXCEPT !.position = position,
                                 !.entities = made("Skeleton"),
                                 !.bad = st.bad \cup {id}])
             ELSE spawn_loop(lay, k + 1, [st EXCEPT !.position = position])

\* entity.set_player(self.player) for every entity of a group
set_player_all(ents, group, p) ==
    [e \in DOMAIN ents |->
        IF e \in group THEN [ents[e] EXCEPT !.player = p] ELSE ents[e]]

\* the post-pass that leaves the bad group without its back-reference
awareness_good_only(st) ==
    IF st.good # {} /\ st.player = 0
    THEN [st |-> st, err |-> "AttributeError"]
    ELSE [st |-> [st EXCEPT !.entities =
                      set_player_all(st.entities, st.good, st.player)],
          err |-> "none"]

\* the two loops after the spawn: reading self.player raises AttributeError
\* when no player key has set it and a group has a member
awareness(st) ==
    IF st.good # {} /\ st.player = 0
    THEN [st |-> st, err |-> "AttributeError"]
    ELSE LET g == [st EXCEPT !.entities =
                       set_player_all(st.entities, st.good, st.player)]
         IN  IF g.bad # {} /\ g.player = 0
             THEN [st |-> g, err |-> "AttributeError"]
             ELSE [st |-> [g EXCEPT !.entities =
                               set_player_all(g.entities, g.bad, g.player)],
                   err |-> "none"]

create_entities_from_layout(lay) == awareness(spawn_loop(lay, 1, SpawnStart))

\* self.create_entities_from_layout(layout)
CreateEntitiesFromLayout ==
    /\ build_pc = "ready"
    /\ LET r == create_entities_from_layout(layout)
       IN  /\ entities' = r.st.entities
           /\ player' = r.st.player
           /\ player_group' = r.st.player_group
           /\ good_sprites' = r.st.good
           /\ bad_sprites' = r.st.bad
           /\ build_err' = [NoErr EXCEPT !.err = r.err]
           /\ build_pc' = IF r.err = "none"
                          THEN "entities_done" ELSE "entities_raised"
    /\ UNCHANGED <<universal_assets, layout, sprite_group>>
    /\ UNCHANGED <<score_vars, run_vars, music_vars>>

(***************************************************************************)
(* game/levels/level.py: __init__, create_map, add_obstacles,              *)
(* add_sprites_to_camera                                                   *)
(***************************************************************************)
IntGrid(m) == [r \in DOMAIN m |-> [c \in DOMAIN m[r] |-> IntVal(m[r][c])]]

\* game_data.level_data with the layouts import_csv_layout reads for each key
level_data ==
    [level_1 |->
        [ground        |-> IntGrid(<<<<0, 0>>, <<0, 0>>>>),
         rocks         |-> IntGrid(<<<<0 - 1, 0>>, <<0 - 1, 0 - 1>>>>),
         raised_ground |-> IntGrid(<<<<0 - 1, 0 - 1>>, <<0, 0 - 1>>>>),
         plants        |-> IntGrid(<<<<0 - 1, 0 - 1>>, <<0 - 1, 0>>>>),
         fence         |-> IntGrid(<<<<0, 0 - 1>>, <<0 - 1, 0 - 1>>>>),
         extra         |-> IntGrid(<<<<0 - 1, 0 - 1>>, <<0 - 1, 0 - 1>>>>),
         characters    |-> IntGrid(<<<<SkeletonKey, 0 - 1>>,
                                     <<DamselKey, PlayerKey>>>>),
         music         |-> "level_1.ogg"],
     level_2 |->
        [ground        |-> IntGrid(<<<<0, 0, 0>>>>),
         rocks         |-> IntGrid(<<<<0 - 1, 0 - 1, 0>>>>),
         raised_ground |-> IntGrid(<<<<0 - 1, 0 - 1, 0 - 1>>>>),
         plants        |-> IntGrid(<<<<0, 0 - 1, 0 - 1>>>>),
         fence         |-> IntGrid(<<<<0 - 1, 0, 0 - 1>>>>),
         extra         |-> IntGrid(<<<<0 - 1, 0 - 1, 0>>>>),
         characters    |-> IntGrid(<<<<PlayerKey, 0 - 1, SkeletonKey>>>>),
         music         |-> "level_2.ogg"]]

LevelKeys == DOMAIN level_data

\* the tiles of one layer; tiles of different layers are different objects
Layer(name, group) == {[layer |-> name, tile |-> t] : t \in group}

\* create_map: the four tile groups, or the exception of the first
\* create_tile_group call that raised
create_map(assets, level_key) ==
    LET d == level_data[level_key]
        terrain == create_tile_group(assets, d.ground)
        rocks == create_tile_group(assets, d.rocks)
        raised == create_tile_group(assets, d.raised_ground)
        plants == create_tile_group(assets, d.plants)
        fence == create_tile_group(assets, d.fence)
        extra == create_tile_group(assets, d.extra)
        calls == <<terrain, rocks, raised, plants, fence, extra>>
    IN  [err |-> IF \E i \in 1..6 : calls[i].err.err # "none"
                 THEN LET i == CHOOSE i \in 1..6 :
                                   /\ calls[i].err.err # "none"
                                   /\ \A j \in 1..(i - 1) :
                                          calls[j].err.err = "none"
                      IN  calls[i].err.err
                 ELSE "none",
         terrain_sprites |-> Layer("ground", terrain.group)
                                 \cup Layer("rocks", rocks.group)
                                 \cup Layer("raised_ground", raised.group),
         plant_sprites |-> Layer("plants", plants.group),
         fence_sprites |-> Layer("fence", fence.group),
         extra_sprites |-> Layer("extra", extra.group)]

\* add_obstacles: the obstacle group gets the fence tiles
add_obstacles(obstacle_sprites, fence_sprites) ==
    obstacle_sprites \cup fence_sprites

\* a registration that also hands the player group to the camera
add_sprites_to_camera_with_player(camera) ==
    camera \o <<"_terrain_sprites", "_plant_sprites", "_fence_sprites",
                "_extra_sprites", "_good_sprites", "_bad_sprites",
                "_player_group">>

\* add_sprites_to_camera: the groups handed to CameraManager.add, in order
add_sprites_to_camera(camera) ==
    camera \o <<"_terrain_sprites", "_plant_sprites", "_fence_sprites",
                "_extra_sprites", "_good_sprites", "_bad_sprites">>

\* a call of the mixer, with mixer.music.get_busy() at the time of the call
MixerCall(op, busy) == [op |-> op, busy |-> busy]

\* mixer.music.load(path) then mixer.music.play(...): the calls logged, with
\* the music not busy between the two
load_and_play == <<MixerCall("load", FALSE), MixerCall("play", FALSE)>>

\* Level.__init__ up to load_music: the groups, the camera and the music of a
\* level whose construction raised nothing
LevelBuilt(assets, level_key) ==
    LET m == create_map(assets, level_key)
        e == create_entities_from_layout(level_data[level_key].characters)
    IN  /\ m.err = "none"
        /\ e.err = "none"
        /\ e.st.player # 0
        /\ universal_assets = assets
        /\ layout = level_data[level_key].characters
        /\ build_pc = "level"
        /\ build_err = NoErr
        /\ sprite_group = {}
        /\ tile_sprites =
               [terrain_sprites |-> m.terrain_sprites,
                plant_sprites |-> m.plant_sprites,
                fence_sprites |-> m.fence_sprites,
                extra_sprites |-> m.extra_sprites,
                obstacle_sprites |-> add_obstacles({}, m.fence_sprites)]
        /\ entities = e.st.entities
        /\ player = e.st.player
        /\ player_group = e.st.player_group
        /\ good_sprites = e.st.good
        /\ bad_sprites = e.st.bad
        /\ camera_groups = add_sprites_to_camera(<<>>)
        \* load_music on a mixer that plays nothing: load and play
        /\ music_busy = TRUE
        /\ sound_busy = FALSE
        /\ music_track = level_data[level_key].music
        /\ music_pc = "idle"
        /\ music_call = [who |-> "load_music",
                         path |-> level_data[level_key].music,
                         busy0 |-> FALSE]
        /\ music_log = load_and_play
        /\ music_loads = 1

\* Level.__init__(universal_assets, music_handler, level_key) ran to its end
LevelInit(assets, level_key) ==
    /\ LevelBuilt(assets, level_key)
    /\ paused = FALSE

(***************************************************************************)
(* game/levels/level.py: run, pauseMenu                                    *)
(***************************************************************************)
\* the events a frame may find in the queue
Events ==
    {[type |-> "KEYUP", key |-> "K_ESCAPE"],
     [type |-> "KEYUP", key |-> "K_SPACE"],
     [type |-> "KEYDOWN", key |-> "K_ESCAPE"],
     [type |-> "QUIT", key |-> ""]}

IsEscapeKeyUp(event) == event.type = "KEYUP" /\ event.key = "K_ESCAPE"

RECURSIVE CountEscapeKeyUps(_)
CountEscapeKeyUps(events) ==
    IF events = <<>>
    THEN 0
    ELSE (IF IsEscapeKeyUp(Head(events)) THEN 1 ELSE 0)
             + CountEscapeKeyUps(Tail(events))

\* the statement `self._paused is not self._paused`: a comparison whose
\* value is dropped; nothing is assigned
pause_statement(p) ==
    LET dropped == (p # p)
    IN  p

\* the event loop of run: _paused after the events have been handled
RECURSIVE pause_check(_, _)
pause_check(p, events) ==
    IF events = <<>>
    THEN p
    ELSE LET event == Head(events)
         IN  IF event.type = "KEYUP"
             THEN IF event.key = "K_ESCAPE"
                  THEN pause_check(pause_statement(p), Tail(events))
                  ELSE pause_check(p, Tail(events))
             ELSE pause_check(p, Tail(events))

Call(op, target, args) == [op |-> op, target |-> target, args |-> args]

\* pauseMenu prints and returns
pauseMenu == <<Call("pauseMenu", "level", <<>>)>>

\* the frame with the hostile and the friendly update exchanged
run_frame_good_first(p, bad, good, camera) ==
    <<Call("fill", "_display_surface", <<>>)>> \o
    (IF p
     THEN pauseMenu
     ELSE <<Call("update", "_player_group", <<bad, good>>),
            Call("update", "_good_sprites", <<bad, good>>),
            Call("update", "_bad_sprites", <<bad, good>>),
            Call("camera_update", "_camera", <<>>),
            Call("draw", "_camera", <<camera>>),
            Call("draw", "_player_group", <<>>)>>)

\* the frame whose paused branch still updates and draws the player group
run_frame_paused_updates(p, bad, good, camera) ==
    <<Call("fill", "_display_surface", <<>>)>> \o
    (IF p
     THEN pauseMenu \o
          <<Call("update", "_player_group", <<bad, good>>),
            Call("draw", "_player_group", <<>>)>>
     ELSE <<Call("update", "_player_group", <<bad, good>>),
            Call("update", "_bad_sprites", <<bad, good>>),
            Call("update", "_good_sprites", <<bad, good>>),
            Call("camera_update", "_camera", <<>>),
            Call("draw", "_camera", <<camera>>),
            Call("draw", "_player_group", <<>>)>>)

\* the calls run makes once the events are handled and _paused is p
run_frame(p, bad, good, camera) ==
    <<Call("fill", "_display_surface", <<>>)>> \o
    (IF p
     THEN pauseMenu
     ELSE <<Call("update", "_player_group", <<bad, good>>),
            Call("update", "_bad_sprites", <<bad, good>>),
            Call("update", "_good_sprites", <<bad, good>>),
            Call("camera_update", "_camera", <<>>),
            Call("draw", "_camera", <<camera>>),
            Call("draw", "_player_group", <<>>)>>)

\* the window system queues an input event
PostEvent ==
    /\ build_pc = "level"
    /\ Len(event_queue) < MaxEvents
    /\ \E event \in Events : event_queue' = Append(event_queue, event)
    /\ UNCHANGED <<tile_sprites, camera_groups, paused, esc_keyups, frames,
                   frame_log>>
    /\ UNCHANGED <<score_vars, build_vars, music_vars>>

\* level.run(): one frame
Run ==
    /\ build_pc = "level"
    /\ frames < MaxFrames
    /\ paused' = pause_check(paused, event_queue)
    /\ frame_log' = run_frame(paused', bad_sprites, good_sprites, camera_groups)
    /\ esc_keyups' = esc_keyups + CountEscapeKeyUps(event_queue)
    /\ event_queue' = <<>>
    /\ frames' = frames + 1
    /\ UNCHANGED <<tile_sprites, camera_groups>>
    /\ UNCHANGED <<score_vars, build_vars, music_vars>>

(***************************************************************************)
(* The music mixer: game/levels/level.py load_music and                    *)
(* game/menus/main_menu/main_menu.py add_menu_music                        *)
(***************************************************************************)
\* settings.MAIN_MENU_MUSIC_PATH
MAIN_MENU_MUSIC_PATH == "main_menu.ogg"

NoMusicCall == [who |-> "none", path |-> "", busy0 |-> FALSE]

\* the wait loop of Level.load_music polls mixer.get_busy(), the sound channels
level_wait_over(music, sound) == ~sound
\* the wait loop of MainMenu.add_menu_music polls mixer.music.get_busy()
menu_wait_over(music, sound) == ~music

\* the call up to its wait loop.  music.fadeout returns with the music still
\* fading (busy) or, in a build where it blocks, with the music stopped.
MusicBegin(who, path) ==
    /\ music_pc = "idle"
    /\ music_loads < MaxLoads
    /\ music_loads' = music_loads + 1
    /\ music_call' = [who |-> who, path |-> path, busy0 |-> music_busy]
    /\ IF music_busy
       THEN /\ music_log' = <<MixerCall("fadeout", music_busy)>>
            /\ music_busy' \in BOOLEAN
            /\ music_pc' = who
            /\ UNCHANGED music_track
       ELSE /\ music_log' = load_and_play
            /\ music_busy' = TRUE
            /\ music_track' = path
            /\ music_pc' = "idle"
    /\ UNCHANGED sound_busy
    /\ UNCHANGED <<score_vars, build_vars, run_vars>>

\* the rest of the call once its wait loop has ended: unload, load, play
MusicEnd(who) ==
    /\ music_pc = who
    /\ music_log' = music_log \o <<MixerCall("unload", music_busy)>>
                        \o load_and_play
    /\ music_busy' = TRUE
    /\ music_track' = music_call.path
    /\ music_pc' = "idle"
    /\ UNCHANGED <<sound_busy, music_call, music_loads>>
    /\ UNCHANGED <<score_vars, build_vars, run_vars>>

\* Level.load_music(level_key), up to the wait loop
LoadMusic ==
    \E level_key \in LevelKeys :
        MusicBegin("load_music", level_data[level_key].music)

\* Level.load_music: the wait loop ends and the rest of the call runs
LoadMusicAfterWait ==
    /\ level_wait_over(music_busy, sound_busy)
    /\ MusicEnd("load_music")

\* MainMenu.add_menu_music(manager_mixer), up to the wait loop
AddMenuMusic == MusicBegin("add_menu_music", MAIN_MENU_MUSIC_PATH)

\* MainMenu.add_menu_music: the wait loop ends and the rest of the call runs
AddMenuMusicAfterWait ==
    /\ menu_wait_over(music_busy, sound_busy)
    /\ MusicEnd("add_menu_music")

\* the mixer: the music reaches its end, or the end of its fade-out
MusicStops ==
    /\ music_busy
    /\ music_busy' = FALSE
    /\ UNCHANGED <<sound_busy, music_track, music_pc, music_call, music_log,
                   music_loads>>
    /\ UNCHANGED <<score_vars, build_vars, run_vars>>

\* the game plays a sound effect; it cannot while a wait loop is spinning
SoundStarts ==
    /\ music_pc = "idle"
    /\ ~sound_busy
    /\ sound_busy' = TRUE
    /\ UNCHANGED <<music_busy, music_track, music_pc, music_call, music_log,
                   music_loads>>
    /\ UNCHANGED <<score_vars, build_vars, run_vars>>

\* the mixer: the sound effect reaches its end
SoundStops ==
    /\ sound_busy
    /\ sound_busy' = FALSE
    /\ UNCHANGED <<music_busy, music_track, music_pc, music_call, music_log,
                   music_loads>>
    /\ UNCHANGED <<score_vars, build_vars, run_vars>>

(***************************************************************************)
(* Specifications                                                          *)
(***************************************************************************)
BuildIdle ==
    /\ universal_assets = <<>>
    /\ layout = <<>>
    /\ build_pc = "idle"
    /\ build_err = NoErr
    /\ sprite_group = {}
    /\ entities = <<>>
    /\ player = 0
    /\ player_group = {}
    /\ good_sprites = {}
    /\ bad_sprites = {}

RunIdle ==
    /\ tile_sprites = [terrain_sprites |-> {}, plant_sprites |-> {},
                       fence_sprites |-> {}, extra_sprites |-> {},
                       obstacle_sprites |-> {}]
    /\ camera_groups = <<>>
    /\ paused = FALSE
    /\ event_queue = <<>>
    /\ esc_keyups = 0
    /\ frames = 0
    /\ frame_log = <<>>

\* the mixer after pygame.mixer.init(): nothing loaded, nothing playing
MusicIdle ==
    /\ music_busy = FALSE
    /\ sound_busy = FALSE
    /\ music_track = "none"
    /\ music_pc = "idle"
    /\ music_call = NoMusicCall
    /\ music_log = <<>>
    /\ music_loads = 0

\* the ScoreController alone
InitScore ==
    /\ ScoreInit
    /\ BuildIdle
    /\ RunIdle
    /\ MusicIdle

SpecScore == InitScore /\ [][ScoreNext]_vars

\* one call of create_tile_group or of create_entities_from_layout on a layout
InitBuild ==
    /\ ScoreInit
    /\ universal_assets \in AssetTables
    /\ layout \in Layouts
    /\ build_pc = "ready"
    /\ build_err = NoErr
    /\ sprite_group = {}
    /\ entities = <<>>
    /\ player = 0
    /\ player_group = {}
    /\ good_sprites = {}
    /\ bad_sprites = {}
    /\ RunIdle
    /\ MusicIdle

BuildNext ==
    \/ CreateTileGroup
    \/ CreateEntitiesFromLayout

SpecBuild == InitBuild /\ [][BuildNext]_vars

\* a constructed Level and its frames
InitRun ==
    /\ ScoreInit
    /\ \E assets \in AssetTables, level_key \in LevelKeys :
           LevelInit(assets, level_key)
    /\ event_queue = <<>>
    /\ esc_keyups = 0
    /\ frames = 0
    /\ frame_log = <<>>

RunNext ==
    \/ PostEvent
    \/ Run

SpecRun == InitRun /\ [][RunNext]_vars

\* the frames of a Level as a function of _paused: a constructed Level whose
\* _paused attribute holds either value when its frames begin
InitFrame ==
    /\ ScoreInit
    /\ \E assets \in AssetTables, level_key \in LevelKeys :
           LevelBuilt(assets, level_key)
    /\ paused \in BOOLEAN
    /\ event_queue = <<>>
    /\ esc_keyups = 0
    /\ frames = 0
    /\ frame_log = <<>>

SpecFrame == InitFrame /\ [][RunNext]_vars

\* the mixer shared by the main menu and the levels
InitMusic ==
    /\ ScoreInit
    /\ BuildIdle
    /\ RunIdle
    /\ MusicIdle

MusicNext ==
    \/ LoadMusic
    \/ LoadMusicAfterWait
    \/ AddMenuMusic
    \/ AddMenuMusicAfterWait
    \/ MusicStops
    \/ SoundStarts
    \/ SoundStops

SpecMusic == InitMusic /\ [][MusicNext]_vars

(***************************************************************************)
(* Claims                                                                  *)
(***************************************************************************)

Max(a, b) == IF a >= b THEN a ELSE b

\* C2: after any sequence of ScoreController operations both high_score and
\* boredom_meter are greater than or equal to 0.
C2_ScoresNonNegative ==
    /\ high_score >= 0
    /\ boredom_meter >= 0

\* a Damsel decrement that would have taken both values below 0 left them 0
C2_Witness ==
    /\ score_last.op = "good_entity_destroyed"
    /\ score_last.arg = "Damsel"
    /\ score_last.h0 \in 1..(SCORE_REDUCE_DAMSEL_DEATH - 1)
    /\ score_last.b0 \in 1..(BOREDOM_REDUCE_DAMSEL_DEATH - 1)
    /\ high_score = 0
    /\ boredom_meter = 0

\* C3: good_entity_destroyed_update_score("Damsel") started with high_score h
\* and boredom_meter b leaves max(0, h - 6) and max(0, b - 10) and raises no
\* error.
C3_DamselClamped ==
    (score_last.op = "good_entity_destroyed" /\ score_last.arg = "Damsel") =>
        /\ high_score = Max(0, score_last.h0 - 6)
        /\ boredom_meter = Max(0, score_last.b0 - 10)
        /\ score_last.err = "none"

\* the scenario of the claim: high_score 3 becomes 0
C3_Witness ==
    /\ score_last.op = "good_entity_destroyed"
    /\ score_last.arg = "Damsel"
    /\ score_last.h0 = 3
    /\ score_last.b0 = 12
    /\ high_score = 0
    /\ boredom_meter = 2

\* C4: assigning a negative value to high_score or to boredom_meter raises
\* ValueError and leaves both values as they were before the assignment.
C4_NegativeRejected ==
    (/\ score_last.op \in {"set_high_score", "set_boredom_meter"}
     /\ score_last.val < 0) =>
        /\ score_last.err = "ValueError"
        /\ high_score = score_last.h0
        /\ boredom_meter = score_last.b0

\* a negative assignment to a high_score that was positive
C4_Witness ==
    /\ score_last.op = "set_high_score"
    /\ score_last.val = 0 - 1
    /\ score_last.h0 = 4
    /\ score_last.b0 = 5
    /\ score_last.err = "ValueError"
    /\ high_score = 4

(***************************************************************************)
(* Claims about the Level builders (SpecBuild) and frames (SpecRun)        *)
(***************************************************************************)
Range(f) == {f[x] : x \in DOMAIN f}
CellIndices(lay) == 1..NumCells(lay)
IsIntLayout(lay) == \A k \in CellIndices(lay) : CellAt(lay, k).t = "int"
\* the integer a cell stands for (the cells of the model are all numeric)
CellNumber(lay, k) == PyInt(CellAt(lay, k)).value
CellOf(lay, row_index, col_index) == lay[row_index + 1][col_index + 1]
TilesRan == build_pc \in {"tiles_returned", "tiles_raised"}
EntitiesRan == build_pc \in {"entities_done", "entities_raised"}

\* C1: every escape key-up processed by run flips _paused, so _paused is true
\* exactly when an odd number of escape key-ups has been processed since the
\* level was constructed with _paused false.
C1_EscapeToggles ==
    build_pc = "level" => (paused <=> (esc_keyups % 2 = 1))

\* C5: in a layout of integers, a cell holding the sentinel -1 never produces
\* a tile in create_tile_group and never produces an entity in
\* create_entities_from_layout.
C5_SentinelNeverMaterialised ==
    IsIntLayout(layout) =>
        /\ TilesRan =>
               \A t \in sprite_group :
                   CellOf(layout, t.row, t.col) # IntVal(0 - 1)
        /\ EntitiesRan =>
               \A id \in DOMAIN entities :
                   CellOf(layout, entities[id].row, entities[id].col)
                       # IntVal(0 - 1)

\* every non-sentinel cell of the layout holds a valid index of the asset table
ValidTileLayout(assets, lay) ==
    \A k \in CellIndices(lay) :
        CellNumber(lay, k) # 0 - 1 =>
            (0 <= CellNumber(lay, k) /\ CellNumber(lay, k) < Len(assets))

\* the tile the claim expects for the k-th cell
ExpectedTile(lay, k) ==
    [row |-> RowIndex(lay, k), col |-> ColIndex(lay, k),
     pos |-> <<ColIndex(lay, k) * TILESIZE, RowIndex(lay, k) * TILESIZE>>,
     image |-> CellNumber(lay, k)]

\* C6: for a valid tile-layer layout of integers create_tile_group returns
\* exactly one tile per non-sentinel cell, at (col * TILESIZE, row * TILESIZE)
\* with the asset the cell names, and no other member.
C6_OneTilePerNonSentinelCell ==
    (/\ build_pc \in {"tiles_returned", "tiles_raised"}
     /\ IsIntLayout(layout)
     /\ ValidTileLayout(universal_assets, layout)) =>
        /\ build_pc = "tiles_returned"
        /\ sprite_group =
               {ExpectedTile(layout, k) :
                    k \in {j \in CellIndices(layout) :
                               CellNumber(layout, j) # 0 - 1}}
        /\ Cardinality(sprite_group) =
               Cardinality({j \in CellIndices(layout) :
                                CellNumber(layout, j) # 0 - 1})

PlayerKeyCells(lay) ==
    {k \in CellIndices(lay) : PyEq(CellAt(lay, k), IntVal(PlayerKey))}

\* C7: for a character layout with exactly one player key, after
\* create_entities_from_layout the player group holds exactly one member, it
\* is the entity Level.player refers to, it is the only player entity, and it
\* was spawned at (col * TILESIZE, row * TILESIZE) of the player key's cell.
C7_ExactlyOnePlayer ==
    (EntitiesRan /\ Cardinality(PlayerKeyCells(layout)) = 1) =>
        LET k == CHOOSE j \in PlayerKeyCells(layout) : TRUE
        IN  /\ build_pc = "entities_done"
            /\ Cardinality(player_group) = 1
            /\ player_group = {player}
            /\ player \in DOMAIN entities
            /\ {id \in DOMAIN entities : entities[id].kind = "Player"}
                   = {player}
            /\ entities[player].pos =
                   <<ColIndex(layout, k) * TILESIZE,
                     RowIndex(layout, k) * TILESIZE>>

\* the player key in the second row and second column, after a sentinel cell
\* and next to other entities
C7_Witness ==
    /\ build_pc = "entities_done"
    /\ layout = [r \in 1..2 |-> [c \in 1..2 |->
                    IntVal(IF r = 1 /\ c = 1 THEN SkeletonKey
                           ELSE IF r = 1 /\ c = 2 THEN 0 - 1
                           ELSE IF r = 2 /\ c = 1 THEN DamselKey
                           ELSE PlayerKey)]]
    /\ player = 3
    /\ player_group = {3}
    /\ entities[3].pos = <<TILESIZE, TILESIZE>>

\* C8: after create_entities_from_layout has finished, every member of the
\* good group and of the bad group has a player back-reference that is set
\* and is the spawned player, wherever the player key stands in the layout.
C8_BackReferences ==
    build_pc = "entities_done" =>
        \A id \in good_sprites \cup bad_sprites :
            /\ entities[id].player # 0
            /\ entities[id].player = player
            /\ player \in player_group
            /\ entities[player].kind = "Player"

\* a skeleton spawned before the player and a damsel spawned after it
C8_Witness ==
    /\ build_pc = "entities_done"
    /\ Len(entities) = 3
    /\ entities[1].kind = "Skeleton"
    /\ entities[2].kind = "Player"
    /\ entities[3].kind = "Damsel"
    /\ bad_sprites = {1}
    /\ good_sprites = {3}
    /\ entities[1].player = 2
    /\ entities[3].player = 2

\* C9: in create_tile_group a non-sentinel cell whose value is below 0 or at
\* or above the length of the asset table is a fatal error: the call raises,
\* and no tile is created for the cell with some other asset.
C9_OutOfRangeIsFatal ==
    TilesRan =>
        \A k \in CellIndices(layout) :
            (/\ CellNumber(layout, k) # 0 - 1
             /\ (CellNumber(layout, k) < 0
                    \/ CellNumber(layout, k) >= Len(universal_assets))) =>
                /\ build_pc = "tiles_raised"
                /\ ~ \E t \in sprite_group :
                         /\ t.row = RowIndex(layout, k)
                         /\ t.col = ColIndex(layout, k)

\* C10: a frame run executes in the Running state clears the surface, updates
\* the player group, then the bad group, then the good group, each with the
\* bad and the good group as arguments, then updates the camera, then draws
\* the camera's groups, then draws the player group; the player group is not
\* one of the groups registered with the camera.
C10_RunningFrameOrder ==
    (build_pc = "level" /\ frames > 0 /\ ~paused) =>
        /\ Len(frame_log) = 7
        /\ frame_log[1].op = "fill"
        /\ frame_log[1].target = "_display_surface"
        /\ [i \in 2..4 |-> <<frame_log[i].op, frame_log[i].target>>] =
               [i \in 2..4 |-> <<"update",
                                 <<"_player_group", "_bad_sprites",
                                   "_good_sprites">>[i - 1]>>]
        /\ \A i \in 2..4 : frame_log[i].args = <<bad_sprites, good_sprites>>
        /\ frame_log[5].op = "camera_update"
        /\ frame_log[5].target = "_camera"
        /\ frame_log[6].op = "draw"
        /\ frame_log[6].target = "_camera"
        /\ frame_log[6].args = <<camera_groups>>
        /\ frame_log[7].op = "draw"
        /\ frame_log[7].target = "_player_group"
        /\ "_player_group" \notin Range(camera_groups)
        /\ Range(camera_groups) # {}

\* a second frame of a level with a member in the bad and the good group
C10_Witness ==
    /\ build_pc = "level"
    /\ frames = 2
    /\ ~paused
    /\ good_sprites # {}
    /\ bad_sprites # {}
    /\ Len(frame_log) = 7
    /\ frame_log[3].args = <<bad_sprites, good_sprites>>

OpsOf(log) == {log[i].op : i \in DOMAIN log}
CallsOf(log, op) == {i \in DOMAIN log : log[i].op = op}

\* C11: a frame run executes in the Paused state updates no sprite group,
\* neither updates nor draws the camera, does not draw the player group and
\* invokes pauseMenu exactly once; a frame executed in the Running state does
\* not invoke pauseMenu.
C11_PausedFrameSkipsGameplay ==
    (build_pc = "level" /\ frames > 0) =>
        /\ paused =>
               /\ OpsOf(frame_log) \cap {"update", "camera_update", "draw"} = {}
               /\ Cardinality(CallsOf(frame_log, "pauseMenu")) = 1
        /\ ~paused => CallsOf(frame_log, "pauseMenu") = {}

\* a frame executed while _paused is true, after an escape key-up was handled
C11_Witness ==
    /\ build_pc = "level"
    /\ frames > 0
    /\ paused
    /\ esc_keyups = 1
    /\ Len(frame_log) = 2
    /\ frame_log[2].op = "pauseMenu"

MixerOps(log) == [i \in DOMAIN log |-> log[i].op]

\* what the claim says of a finished call of `who`
FadesThenUnloadsAfterPlayback(who) ==
    (music_call.who = who /\ music_pc = "idle") =>
        IF music_call.busy0
        THEN /\ MixerOps(music_log) = <<"fadeout", "unload", "load", "play">>
             /\ ~music_log[2].busy
        ELSE MixerOps(music_log) = <<"load", "play">>

\* C12: load_music and add_menu_music, called while music is playing, request
\* a fade-out and unload only once the music is no longer busy, and only then
\* load and play the new track; called while no music is playing they load and
\* play without fading or unloading.
C12_UnloadAfterPlaybackEnds ==
    /\ FadesThenUnloadsAfterPlayback("load_music")
    /\ FadesThenUnloadsAfterPlayback("add_menu_music")

KeyValues == {IntVal(PlayerKey), IntVal(DamselKey), IntVal(SkeletonKey)}
KeyCells(lay) == {k \in CellIndices(lay) : CellAt(lay, k) \in KeyValues}
\* the cell value that spawned entity id
KeyOf(id) == CellOf(layout, entities[id].row, entities[id].col)
SpawnCells ==
    {<<entities[id].row, entities[id].col>> : id \in DOMAIN entities}

\* the three groups share no member and hold spawned entities only
GroupsDisjoint ==
    /\ player_group \cap good_sprites = {}
    /\ player_group \cap bad_sprites = {}
    /\ good_sprites \cap bad_sprites = {}
    /\ (player_group \cup good_sprites \cup bad_sprites) \subseteq DOMAIN entities

\* one entity per key cell, of the kind of its key, and none for another cell
SpawnedByKeyOnly ==
    /\ Len(entities) = Cardinality(KeyCells(layout))
    /\ SpawnCells =
           {<<RowIndex(layout, k), ColIndex(layout, k)>> : k \in KeyCells(layout)}
    /\ \A id \in DOMAIN entities :
           /\ KeyOf(id) \in KeyValues
           /\ entities[id].kind =
                  (IF KeyOf(id) = IntVal(PlayerKey) THEN "Player"
                   ELSE IF KeyOf(id) = IntVal(DamselKey) THEN "Damsel"
                   ELSE "Skeleton")

FactionByKey(id) ==
    /\ KeyOf(id) = IntVal(DamselKey) =>
           (id \in good_sprites /\ id \notin player_group \cup bad_sprites)
    /\ KeyOf(id) = IntVal(SkeletonKey) =>
           (id \in bad_sprites /\ id \notin player_group \cup good_sprites)

\* C13 as stated: after create_entities_from_layout the player, good and bad
\* groups are pairwise disjoint and every spawned entity is in exactly one of
\* them, chosen by its key (player key: the player group only; damsel key:
\* the good group only; skeleton key: the bad group only); a cell that holds
\* none of the three keys spawns nothing.
C13_ExactlyOneGroupByKey ==
    EntitiesRan =>
        /\ GroupsDisjoint
        /\ SpawnedByKeyOnly
        /\ \A id \in DOMAIN entities :
               /\ FactionByKey(id)
               /\ KeyOf(id) = IntVal(PlayerKey) =>
                      (id \in player_group
                           /\ id \notin good_sprites \cup bad_sprites)

\* C13 amended: as stated, except that of the entities spawned by player keys
\* only the one spawned last is in the player group (it is Level.player); an
\* earlier one is in none of the three groups.
C13_GroupsByKeyLastPlayer ==
    EntitiesRan =>
        /\ GroupsDisjoint
        /\ SpawnedByKeyOnly
        /\ \A id \in DOMAIN entities :
               /\ FactionByKey(id)
               /\ KeyOf(id) = IntVal(PlayerKey) =>
                      /\ id \notin good_sprites \cup bad_sprites
                      /\ id \in player_group <=>
                             (\A other \in DOMAIN entities :
                                  KeyOf(other) = IntVal(PlayerKey) =>
                                      other <= id)
                      /\ id \in player_group => id = player

\* two player keys around a damsel and a skeleton: the first player entity is
\* in no group, the second is the member of the player group
C13_Witness ==
    /\ build_pc = "entities_done"
    /\ layout = [r \in 1..1 |-> [c \in 1..4 |->
                    IntVal(<<PlayerKey, DamselKey, SkeletonKey, PlayerKey>>[c])]]
    /\ player_group = {4}
    /\ good_sprites = {2}
    /\ bad_sprites = {3}
    /\ 1 \notin player_group \cup good_sprites \cup bad_sprites

\* C14: every ScoreController() call returns the same instance, and a call
\* made after the first one leaves high_score and boredom_meter at the values
\* they had before the call.
C14_SingletonStateSurvives ==
    score_last.op = "ScoreController" =>
        /\ instance = ScoreController_new(0, 0).instance
        /\ objects_made = 1
        /\ high_score = score_last.h0
        /\ boredom_meter = score_last.b0
====
